---- MODULE Spec2Model ----
(***************************************************************************)
(* Model of synthetic_cdn/generator.py: the synthetic CDN sample generator *)
(* (generate_synthetic_cdn_data), the reporter (describe, diagnostics,     *)
(* visualize_data) and the batch driver main.                              *)
(*                                                                         *)
(* Real quantities are fixed-point integers:                               *)
(*   rtt, server_delay, ttfb, total_cost   milliseconds                    *)
(*   loss                                  1/LossScale                     *)
(*   noise                                 1/NoiseScale                    *)
(*   base_throughput, throughput           1/TpScale Mbps                  *)
(*   LOSS_PROBABILITY                      1/ProbDen                       *)
(* The module-level numpy generator (np.random) is a deterministic         *)
(* generator over RngMod states; one raw draw advances it by one step.     *)
(***************************************************************************)
EXTENDS Integers, Sequences, FiniteSets, TLC

\* ------------------------------------------------------------- bounds
MaxN == 3
MaxCalls == 2
MaxMissing == 1
RngMod == 16
SeedSpan == 1
ExtremeRttMedian == 300000

\* -------------------------------------------------- program constants
RANDOM_SEED == 42
RTT_MEDIAN == 30
DELAY_MEDIAN == 20
ProbDen == 20
LOSS_PROBABILITY == 3
LossScale == 5000
LOSS_MIN == 5
LOSS_MAX == 100
THROUGHPUT_CONSTANT == 10000
LOSS_IMPACT_WEIGHT == 5000
NoiseScale == 100
NOISE_LOW == 90
NOISE_HIGH == 110
TpScale == 100
THROUGHPUT_FLOOR == 1
FactorScale == 100

\* exp(sigma * z) * FactorScale for z = -2, -1, 0, 1, 2
RttFactor == <<37, 61, 100, 165, 272>>
DelayFactor == <<20, 45, 100, 223, 495>>

\* ------------------------------------------------------ configurations
LossProbs == {-10, 0, LOSS_PROBABILITY, 10, ProbDen, 30}
LossBounds == {<<LOSS_MIN, LOSS_MAX>>, <<LOSS_MAX, LOSS_MIN>>}
RttMedians == {RTT_MEDIAN, ExtremeRttMedian}
Seeds == RANDOM_SEED .. (RANDOM_SEED + SeedSpan)
SampleCounts == -1 .. MaxN

VARIABLES cfg, rng, pc, caller, calls, err, draws,
          rtt, server_delay, ttfb, loss, lossy_indices,
          total_cost, base_throughput, noise, throughput,
          df, prev, csv, png, stats, between, steps,
          primary_key, lpc, target_i, probes_ok, measurement_id, attempts,
          measurements, written,
          version_info, site_packages, existing_dirs, env_file, vpc, checks,
          report

vars == <<cfg, rng, pc, caller, calls, err, draws,
          rtt, server_delay, ttfb, loss, lossy_indices,
          total_cost, base_throughput, noise, throughput,
          df, prev, csv, png, stats, between, steps,
          primary_key, lpc, target_i, probes_ok, measurement_id, attempts,
          measurements, written,
          version_info, site_packages, existing_dirs, env_file, vpc, checks,
          report>>

\* the state of the probe launcher (src/utils/ripe_atlas_test.py)
launcher == <<primary_key, lpc, target_i, probes_ok, measurement_id, attempts,
              measurements, written>>

\* the state of the installation verifier (verify_installation.py)
verifier == <<version_info, site_packages, existing_dirs, env_file, vpc, checks,
          report>>

\* the two scripts are processes of their own: nothing of the generator
\* touches their state
scripts == <<launcher, verifier>>

locals == <<rtt, server_delay, ttfb, loss, lossy_indices,
            total_cost, base_throughput, noise, throughput>>

\* what a call of generate has no business with: the files and report of
\* main, the record that other code drew between two calls, and the
\* statements the current run of main has executed
files == <<csv, png, stats, between, steps, scripts>>

\* ------------------------------------------------------------ helpers
Max(a, b) == IF a >= b THEN a ELSE b

\* Python int(): truncation toward zero of a / b, b > 0
Trunc(a, b) == IF a >= 0 THEN a \div b ELSE -((-a) \div b)

Repeat(x, n) == [i \in 1..Max(n, 0) |-> x]

\* ------------------------------------------- the global numpy generator
SeedState(seed) == seed % RngMod

Step(s) == (5 * s + 3) % RngMod

RECURSIVE StepN(_, _)
StepN(s, n) == IF n <= 0 THEN s ELSE StepN(Step(s), n - 1)

\* np.random.lognormal: median * exp(sigma * z), z from the raw draw
LogNormal(median, factor, s) ==
    (median * factor[(s % Len(factor)) + 1]) \div FactorScale

\* np.random.uniform(low, high): low + (high - low) * u, u in [0, 1)
Uniform(low, high, s) == low + Trunc((high - low) * s, RngMod)

LogNormalVec(median, factor, s, n) ==
    [i \in 1..n |-> LogNormal(median, factor, StepN(s, i))]

UniformVec(low, high, s, n) ==
    [i \in 1..n |-> Uniform(low, high, StepN(s, i))]

Swap(arr, i, j) == [arr EXCEPT ![i] = arr[j], ![j] = arr[i]]

\* RandomState.shuffle: Fisher-Yates, i from n-1 down to 1, j in 0..i
\* (arr is 1-based here and holds the 0-based indices)
RECURSIVE Shuffle(_, _, _)
Shuffle(arr, i, s) ==
    IF i < 1 THEN arr
    ELSE LET s1 == Step(s)
             j  == s1 % (i + 1)
         IN  Shuffle(Swap(arr, i + 1, j + 1), i - 1, s1)

\* RandomState.permutation(n): shuffle of arange(n)
Permutation(n, s) == Shuffle([i \in 1..n |-> i - 1], n - 1, s)

\* ---------------------------------------------------------- DataFrame
Columns == <<"RTT", "TTFB", "Loss", "Throughput">>

NoFrame == [columns |-> <<>>, RTT |-> <<>>, TTFB |-> <<>>,
            Loss |-> <<>>, Throughput |-> <<>>]

FrameOf(r, t, l, tp) == [columns |-> Columns, RTT |-> r, TTFB |-> t,
                         Loss |-> l, Throughput |-> tp]

NoImage == [written |-> FALSE, points |-> <<>>]

NoStats == [count |-> 0, lossy |-> 0, rttSum |-> 0, tpMin |-> 0]

\* ---------------------------------------------------- statement order
\* fault variant of StmtOrder: the noise is drawn before the loss selection
StmtOrderNoiseEarly ==
    <<"seed", "rtt", "delay", "ttfb", "noise", "zeros", "choice", "loss",
      "cost", "base", "mul", "clamp", "frame">>

StmtOrder == <<"seed", "rtt", "delay", "ttfb", "zeros", "choice", "loss",
               "cost", "base", "noise", "mul", "clamp", "frame">>

GenStmts == {StmtOrder[i] : i \in 1..Len(StmtOrder)}

NextStmt(p) ==
    LET i == CHOOSE k \in 1..Len(StmtOrder) : StmtOrder[k] = p
    IN  IF i < Len(StmtOrder) THEN StmtOrder[i + 1] ELSE "return"

\* ------------------------------------------- the scripts, not yet run
\* Python's None
None == "None"

\* ripe_atlas_test.py before main: the key as the environment holds it,
\* nothing attempted, nothing written
LauncherIdle ==
    /\ primary_key = "key"
    /\ lpc = "check_api_key"
    /\ target_i = 1
    /\ probes_ok = None
    /\ measurement_id = None
    /\ attempts = <<>>
    /\ measurements = <<>>
    /\ written = <<>>

\* verify_installation.py lines 24-34, 36-40 and 68-74
packages == <<"numpy", "pandas", "sklearn", "matplotlib", "seaborn",
              "ripe.atlas.cousteau", "jupyter", "tqdm", "requests">>

optional_packages == <<"xgboost", "lightgbm", "plotly">>

required_dirs == <<"data/raw", "data/processed", "notebooks", "src", "results">>

Elements(q) == {q[i] : i \in 1..Len(q)}

\* line 16: the oldest interpreter the version check accepts
SupportedVersion == <<3, 8>>

\* verify_installation.py before main, on a complete installation
VerifierIdle ==
    /\ version_info = SupportedVersion
    /\ site_packages = [p \in Elements(packages) \cup Elements(optional_packages) |-> "installed"]
    /\ existing_dirs = Elements(required_dirs)
    /\ env_file = "configured"
    /\ vpc = "check_python_version"
    /\ checks = <<>>
    /\ report = None

\* ---------------------------------------------------------------- Init
Init ==
    /\ \E n \in SampleCounts, p \in LossProbs, b \in LossBounds,
          m \in RttMedians, sd \in Seeds :
          cfg = [N_SAMPLES |-> n, LOSS_PROBABILITY |-> p,
                 LOSS_MIN |-> b[1], LOSS_MAX |-> b[2],
                 RTT_MEDIAN |-> m, RANDOM_SEED |-> sd]
    /\ rng \in 0..(RngMod - 1)
    /\ pc = "idle"
    /\ caller = "none"
    /\ calls = 0
    /\ err = "none"
    /\ draws = <<>>
    /\ rtt = <<>> /\ server_delay = <<>> /\ ttfb = <<>> /\ loss = <<>>
    /\ lossy_indices = <<>> /\ total_cost = <<>> /\ base_throughput = <<>>
    /\ noise = <<>> /\ throughput = <<>>
    /\ df = NoFrame /\ prev = NoFrame
    /\ csv = <<>> /\ png = NoImage /\ stats = NoStats
    /\ between = FALSE
    /\ steps = <<>>
    /\ LauncherIdle
    /\ VerifierIdle

\* ------------------------------------------------------------ generate
\* An exception leaves generate (and main): nothing is returned.
Raise(e) ==
    /\ err' = e
    /\ pc' = "crashed"

\* fault variant of Seed: the seeding call is left out
SeedSkipped ==
    /\ pc = "seed"
    /\ pc' = NextStmt("seed")
    /\ UNCHANGED <<cfg, rng, caller, calls, err, draws, locals, df, prev, files>>

\* line 67: np.random.seed(RANDOM_SEED)
Seed ==
    /\ pc = "seed"
    /\ rng' = SeedState(cfg.RANDOM_SEED)
    /\ pc' = NextStmt("seed")
    /\ UNCHANGED <<cfg, caller, calls, err, draws, locals, df, prev, files>>

\* line 71: rtt = np.random.lognormal(RTT_MEAN_LOG, RTT_SIGMA_LOG, N_SAMPLES)
DrawRtt ==
    /\ pc = "rtt"
    /\ IF cfg.N_SAMPLES < 0
       THEN /\ Raise("ValueError")
            /\ UNCHANGED <<rng, draws, rtt>>
       ELSE /\ rtt' = LogNormalVec(cfg.RTT_MEDIAN, RttFactor, rng, cfg.N_SAMPLES)
            /\ rng' = StepN(rng, cfg.N_SAMPLES)
            /\ draws' = draws \o Repeat("rtt", cfg.N_SAMPLES)
            /\ pc' = NextStmt("rtt")
            /\ err' = err
    /\ UNCHANGED <<cfg, caller, calls, server_delay, ttfb, loss, lossy_indices,
                   total_cost, base_throughput, noise, throughput, df, prev, files>>

\* line 75: server_delay = np.random.lognormal(DELAY_MEAN_LOG, DELAY_SIGMA_LOG, N_SAMPLES)
DrawDelay ==
    /\ pc = "delay"
    /\ IF cfg.N_SAMPLES < 0
       THEN /\ Raise("ValueError")
            /\ UNCHANGED <<rng, draws, server_delay>>
       ELSE /\ server_delay' = LogNormalVec(DELAY_MEDIAN, DelayFactor, rng, cfg.N_SAMPLES)
            /\ rng' = StepN(rng, cfg.N_SAMPLES)
            /\ draws' = draws \o Repeat("delay", cfg.N_SAMPLES)
            /\ pc' = NextStmt("delay")
            /\ err' = err
    /\ UNCHANGED <<cfg, caller, calls, rtt, ttfb, loss, lossy_indices,
                   total_cost, base_throughput, noise, throughput, df, prev, files>>

\* fault variant of TtfbOf: ttfb perturbed independently of its parts
TtfbOfJittered(r, d) == [i \in 1..Len(r) |-> r[i] + d[i] + 1]

\* line 79: ttfb = rtt + server_delay
TtfbOf(r, d) == [i \in 1..Len(r) |-> r[i] + d[i]]

ComputeTtfb ==
    /\ pc = "ttfb"
    /\ ttfb' = TtfbOf(rtt, server_delay)
    /\ pc' = NextStmt("ttfb")
    /\ UNCHANGED <<cfg, rng, caller, calls, err, draws, rtt, server_delay, loss,
                   lossy_indices, total_cost, base_throughput, noise, throughput,
                   df, prev, files>>

\* line 83: loss = np.zeros(N_SAMPLES)
ZeroLoss ==
    /\ pc = "zeros"
    /\ loss' = Repeat(0, cfg.N_SAMPLES)
    /\ pc' = NextStmt("zeros")
    /\ UNCHANGED <<cfg, rng, caller, calls, err, draws, rtt, server_delay, ttfb,
                   lossy_indices, total_cost, base_throughput, noise, throughput,
                   df, prev, files>>

\* fault variant of LossyCount: round to nearest instead of truncating
LossyCountRounded(n, p) == Trunc(2 * n * p + ProbDen, 2 * ProbDen)

\* line 86: size = int(N_SAMPLES * LOSS_PROBABILITY)
LossyCount(n, p) == Trunc(n * p, ProbDen)

\* lines 84-88: lossy_indices = np.random.choice(N_SAMPLES, size, replace=False)
\* = permutation(N_SAMPLES)[:size], after the argument checks of choice
ChooseLossy ==
    /\ pc = "choice"
    /\ LET n == cfg.N_SAMPLES
           k == LossyCount(n, cfg.LOSS_PROBABILITY)
       IN  IF (n <= 0 /\ k # 0) \/ k > n \/ k < 0
           THEN /\ Raise("ValueError")
                /\ UNCHANGED <<rng, draws, lossy_indices>>
           ELSE /\ lossy_indices' = SubSeq(Permutation(n, rng), 1, k)
                /\ rng' = StepN(rng, n - 1)
                /\ draws' = draws \o Repeat("choice", n - 1)
                /\ pc' = NextStmt("choice")
                /\ err' = err
    /\ UNCHANGED <<cfg, caller, calls, rtt, server_delay, ttfb, loss,
                   total_cost, base_throughput, noise, throughput, df, prev, files>>

\* fault variant of LossAssign: every sample gets a loss draw
LossAssignAll(l, idx, low, high, s) ==
    [i \in 1..Len(l) |-> Uniform(low, high, StepN(s, i))]

\* lines 89-93: loss[lossy_indices] = np.random.uniform(LOSS_MIN, LOSS_MAX, len(lossy_indices))
LossAssign(l, idx, low, high, s) ==
    [i \in 1..Len(l) |->
        LET ms == {m \in 1..Len(idx) : idx[m] = i - 1}
        IN  IF ms = {} THEN l[i]
            ELSE Uniform(low, high, StepN(s, CHOOSE m \in ms : \A o \in ms : o <= m))]

DrawLoss ==
    /\ pc = "loss"
    /\ loss' = LossAssign(loss, lossy_indices, cfg.LOSS_MIN, cfg.LOSS_MAX, rng)
    /\ rng' = StepN(rng, Len(lossy_indices))
    /\ draws' = draws \o Repeat("loss", Len(lossy_indices))
    /\ pc' = NextStmt("loss")
    /\ UNCHANGED <<cfg, caller, calls, err, rtt, server_delay, ttfb, lossy_indices,
                   total_cost, base_throughput, noise, throughput, df, prev, files>>

\* line 98: total_cost = rtt + ttfb + (loss * LOSS_IMPACT_WEIGHT)
CostOf(r, t, l) ==
    [i \in 1..Len(r) |-> r[i] + t[i] + (l[i] * LOSS_IMPACT_WEIGHT) \div LossScale]

ComputeCost ==
    /\ pc = "cost"
    /\ total_cost' = CostOf(rtt, ttfb, loss)
    /\ pc' = NextStmt("cost")
    /\ UNCHANGED <<cfg, rng, caller, calls, err, draws, rtt, server_delay, ttfb,
                   loss, lossy_indices, base_throughput, noise, throughput,
                   df, prev, files>>

\* fault variant of BaseOf: the base value grows with the cost instead of
\* falling with it
BaseOfProportional(c) == [i \in 1..Len(c) |-> (c[i] * TpScale) \div THROUGHPUT_CONSTANT]

\* line 101: base_throughput = THROUGHPUT_CONSTANT / total_cost
BaseOf(c) == [i \in 1..Len(c) |-> (THROUGHPUT_CONSTANT * TpScale) \div c[i]]

ComputeBase ==
    /\ pc = "base"
    /\ base_throughput' = BaseOf(total_cost)
    /\ pc' = NextStmt("base")
    /\ UNCHANGED <<cfg, rng, caller, calls, err, draws, rtt, server_delay, ttfb,
                   loss, lossy_indices, total_cost, noise, throughput,
                   df, prev, files>>

\* line 104: noise = np.random.uniform(0.9, 1.1, size=N_SAMPLES)
DrawNoise ==
    /\ pc = "noise"
    /\ noise' = UniformVec(NOISE_LOW, NOISE_HIGH, rng, cfg.N_SAMPLES)
    /\ rng' = StepN(rng, cfg.N_SAMPLES)
    /\ draws' = draws \o Repeat("noise", cfg.N_SAMPLES)
    /\ pc' = NextStmt("noise")
    /\ UNCHANGED <<cfg, caller, calls, err, rtt, server_delay, ttfb, loss,
                   lossy_indices, total_cost, base_throughput, throughput,
                   df, prev, files>>

\* fault variant of NoisyOf: the noise is added to the base value instead of
\* scaling it
NoisyOfAdditive(b, nz) == [i \in 1..Len(b) |-> b[i] + nz[i] - NoiseScale]

\* line 105: throughput = base_throughput * noise
NoisyOf(b, nz) == [i \in 1..Len(b) |-> (b[i] * nz[i]) \div NoiseScale]

ApplyNoise ==
    /\ pc = "mul"
    /\ throughput' = NoisyOf(base_throughput, noise)
    /\ pc' = NextStmt("mul")
    /\ UNCHANGED <<cfg, rng, caller, calls, err, draws, rtt, server_delay, ttfb,
                   loss, lossy_indices, total_cost, base_throughput, noise,
                   df, prev, files>>

\* fault variant of ClampOf: the floor is left out
ClampOfNone(tp) == tp

\* line 108: throughput = np.maximum(throughput, 0.01)
ClampOf(tp) == [i \in 1..Len(tp) |-> Max(tp[i], THROUGHPUT_FLOOR)]

Clamp ==
    /\ pc = "clamp"
    /\ throughput' = ClampOf(throughput)
    /\ pc' = NextStmt("clamp")
    /\ UNCHANGED <<cfg, rng, caller, calls, err, draws, rtt, server_delay, ttfb,
                   loss, lossy_indices, total_cost, base_throughput, noise,
                   df, prev, files>>

\* lines 111-118: return pd.DataFrame(data); the caller binds the result
BuildFrame ==
    /\ pc = "frame"
    /\ df' = FrameOf(rtt, ttfb, loss, throughput)
    /\ prev' = df
    /\ calls' = calls + 1
    /\ pc' = IF caller = "main" THEN "to_csv" ELSE "idle"
    /\ UNCHANGED <<cfg, rng, caller, err, draws, locals, files>>

\* a caller other than main (the module is importable) calls generate
CallGenerate ==
    /\ pc = "idle"
    /\ calls < MaxCalls
    /\ caller' = "lib"
    /\ pc' = StmtOrder[1]
    /\ draws' = <<>>
    /\ rtt' = <<>> /\ server_delay' = <<>> /\ ttfb' = <<>> /\ loss' = <<>>
    /\ lossy_indices' = <<>> /\ total_cost' = <<>> /\ base_throughput' = <<>>
    /\ noise' = <<>> /\ throughput' = <<>>
    /\ UNCHANGED <<cfg, rng, calls, err, df, prev, files>>

\* other code of the process draws from the shared np.random between calls
OtherDraw ==
    /\ pc = "idle"
    /\ rng' = Step(rng)
    /\ between' = (between \/ calls >= 1)
    /\ UNCHANGED <<cfg, pc, caller, calls, err, draws, locals, df, prev, csv, png, stats, steps,
                   scripts>>

Generate ==
    \/ Seed \/ DrawRtt \/ DrawDelay \/ ComputeTtfb \/ ZeroLoss \/ ChooseLossy
    \/ DrawLoss \/ ComputeCost \/ ComputeBase \/ DrawNoise \/ ApplyNoise
    \/ Clamp \/ BuildFrame

\* ---------------------------------------------------------------- main
Column(d, name) ==
    CASE name = "RTT" -> d.RTT
      [] name = "TTFB" -> d.TTFB
      [] name = "Loss" -> d.Loss
      [] name = "Throughput" -> d.Throughput

\* fault variant of CsvOf: index=False left out, so the row index is written
\* as a first, unnamed column
CsvOfWithIndex(d) ==
    <<(<<"">> \o d.columns)>> \o
    [i \in 1..Len(d.RTT) |->
        <<ToString(i - 1)>> \o
        [c \in 1..Len(d.columns) |-> ToString(Column(d, d.columns[c])[i])]]

\* line 169: df.to_csv(output_file, index=False): the header row, then one
\* row per sample, each cell the decimal text of the value
CsvOf(d) ==
    <<d.columns>> \o
    [i \in 1..Len(d.RTT) |->
        [c \in 1..Len(d.columns) |-> ToString(Column(d, d.columns[c])[i])]]

\* lines 159-165: the banner, then df = generate_synthetic_cdn_data()
MainStart ==
    /\ pc = "idle"
    /\ calls < MaxCalls
    /\ caller' = "main"
    /\ pc' = StmtOrder[1]
    /\ draws' = <<>>
    /\ rtt' = <<>> /\ server_delay' = <<>> /\ ttfb' = <<>> /\ loss' = <<>>
    /\ lossy_indices' = <<>> /\ total_cost' = <<>> /\ base_throughput' = <<>>
    /\ noise' = <<>> /\ throughput' = <<>>
    /\ steps' = <<"generate">>
    /\ UNCHANGED <<cfg, rng, calls, err, df, prev, csv, png, stats, between,
                   scripts>>

\* fault variant of ToCsv: the write error is caught, reported and the run
\* goes on
ToCsvSwallow ==
    /\ pc = "to_csv"
    /\ steps' = Append(steps, "to_csv")
    /\ \/ /\ csv' = CsvOf(df)
          /\ err' = err
       \/ /\ err' = "IOError"
          /\ csv' = csv
    /\ pc' = "describe"
    /\ UNCHANGED <<cfg, rng, caller, calls, draws, locals, df, prev, png, stats, between,
                   scripts>>

\* lines 168-170: write the table; an OSError of to_csv is not caught
ToCsv ==
    /\ pc = "to_csv"
    /\ steps' = Append(steps, "to_csv")
    /\ \/ /\ csv' = CsvOf(df)
          /\ pc' = "describe"
          /\ err' = err
       \/ /\ Raise("IOError")
          /\ csv' = csv
    /\ UNCHANGED <<cfg, rng, caller, calls, draws, locals, df, prev, png, stats, between,
                   scripts>>

SeqMin(q) == IF Len(q) = 0 THEN 0
             ELSE CHOOSE x \in {q[i] : i \in 1..Len(q)} :
                      \A j \in 1..Len(q) : x <= q[j]

RECURSIVE SeqSum(_)
SeqSum(q) == IF Len(q) = 0 THEN 0 ELSE q[1] + SeqSum(Tail(q))

\* lines 173-176: print(df.describe())
Describe ==
    /\ pc = "describe"
    /\ steps' = Append(steps, "describe")
    /\ stats' = [stats EXCEPT !.count = Len(df.RTT),
                              !.tpMin = SeqMin(df.Throughput)]
    /\ pc' = "diagnostics"
    /\ UNCHANGED <<cfg, rng, caller, calls, err, draws, locals, df, prev, csv, png, between,
                   scripts>>

\* lines 179-186: lossy count, means, RTT-throughput correlation
Diagnostics ==
    /\ pc = "diagnostics"
    /\ steps' = Append(steps, "diagnostics")
    /\ stats' = [stats EXCEPT
                   !.lossy = Cardinality({i \in 1..Len(df.Loss) : df.Loss[i] > 0}),
                   !.rttSum = SeqSum(df.RTT)]
    /\ pc' = "visualize"
    /\ UNCHANGED <<cfg, rng, caller, calls, err, draws, locals, df, prev, csv, png, between,
                   scripts>>

\* fault variant of Visualize: RTT converted to seconds in place for the plot
VisualizeInPlace ==
    /\ pc = "visualize"
    /\ steps' = Append(steps, "visualize")
    /\ df' = [df EXCEPT !.RTT = [i \in 1..Len(df.RTT) |-> df.RTT[i] \div 1000]]
    /\ png' = [written |-> TRUE,
               points |-> [i \in 1..Len(df.RTT) |->
                              <<df'.RTT[i], df.Throughput[i]>>]]
    /\ pc' = "idle"
    /\ UNCHANGED <<cfg, rng, caller, calls, err, draws, locals, prev, csv, stats, between,
                   scripts>>

\* lines 125-145, 189-197: scatter of RTT against Throughput, saved to the
\* image file; an OSError of savefig is not caught
Visualize ==
    /\ pc = "visualize"
    /\ steps' = Append(steps, "visualize")
    /\ \/ /\ png' = [written |-> TRUE,
                     points |-> [i \in 1..Len(df.RTT) |->
                                    <<df.RTT[i], df.Throughput[i]>>]]
          /\ pc' = "idle"
          /\ err' = err
       \/ /\ Raise("IOError")
          /\ png' = png
    /\ UNCHANGED <<cfg, rng, caller, calls, draws, locals, df, prev, csv, stats, between,
                   scripts>>

Next ==
    \/ Generate
    \/ CallGenerate
    \/ OtherDraw
    \/ MainStart
    \/ ToCsv
    \/ Describe
    \/ Diagnostics
    \/ Visualize

Spec == Init /\ [][Next]_vars

\* ------------------------------------- the throughput arithmetic alone
\* The arithmetic of generate (lines 98-118) on two samples, with the values
\* of the draws left open: the state after line 93 holds any rtt, server
\* delay and loss the samplers can return, and line 104 returns any noise
\* factors within its bounds.
RttDraws == {RTT_MEDIAN, 25 * RTT_MEDIAN, 25 * RTT_MEDIAN + 1, ExtremeRttMedian}

DelayDraws == {(DELAY_MEDIAN * DelayFactor[i]) \div FactorScale : i \in {3, 4}}

LossDraws == {0, LOSS_MIN, LOSS_MAX - 1}

NoiseDraws == {NOISE_LOW, NoiseScale, NOISE_HIGH - 1}

Pairs(S) == {<<a, b>> : a \in S, b \in S}

ArithInit ==
    /\ rng = SeedState(RANDOM_SEED)
    /\ pc = "cost"
    /\ caller = "lib"
    /\ calls = 0
    /\ err = "none"
    /\ draws = <<>>
    /\ rtt \in Pairs(RttDraws)
    /\ cfg = [N_SAMPLES |-> Len(rtt), LOSS_PROBABILITY |-> LOSS_PROBABILITY,
              LOSS_MIN |-> LOSS_MIN, LOSS_MAX |-> LOSS_MAX,
              RTT_MEDIAN |-> RTT_MEDIAN, RANDOM_SEED |-> RANDOM_SEED]
    /\ server_delay \in Pairs(DelayDraws)
    /\ ttfb = TtfbOf(rtt, server_delay)
    /\ loss \in Pairs(LossDraws)
    /\ lossy_indices = <<>> /\ total_cost = <<>> /\ base_throughput = <<>>
    /\ noise = <<>> /\ throughput = <<>>
    /\ df = NoFrame /\ prev = NoFrame
    /\ csv = <<>> /\ png = NoImage /\ stats = NoStats
    /\ between = FALSE
    /\ steps = <<>>
    /\ LauncherIdle
    /\ VerifierIdle

\* line 104 with the drawn values left open
GivenNoise ==
    /\ pc = "noise"
    /\ noise' \in Pairs(NoiseDraws)
    /\ pc' = NextStmt("noise")
    /\ UNCHANGED <<cfg, rng, caller, calls, err, draws, rtt, server_delay, ttfb,
                   loss, lossy_indices, total_cost, base_throughput, throughput,
                   df, prev, files>>

ArithNext ==
    \/ ComputeCost \/ ComputeBase \/ GivenNoise \/ ApplyNoise \/ Clamp
    \/ BuildFrame

ArithSpec == ArithInit /\ [][ArithNext]_vars

\* ---------------------------------------------------- the probe launcher
\* src/utils/ripe_atlas_test.py. The generator takes no part in a run of it.
generator == <<cfg, rng, pc, caller, calls, err, draws, locals, df, prev,
               csv, png, stats, between, steps>>

GeneratorIdle ==
    /\ cfg = [N_SAMPLES |-> MaxN, LOSS_PROBABILITY |-> LOSS_PROBABILITY,
              LOSS_MIN |-> LOSS_MIN, LOSS_MAX |-> LOSS_MAX,
              RTT_MEDIAN |-> RTT_MEDIAN, RANDOM_SEED |-> RANDOM_SEED]
    /\ rng = SeedState(RANDOM_SEED)
    /\ pc = "idle"
    /\ caller = "none"
    /\ calls = 0
    /\ err = "none"
    /\ draws = <<>>
    /\ rtt = <<>> /\ server_delay = <<>> /\ ttfb = <<>> /\ loss = <<>>
    /\ lossy_indices = <<>> /\ total_cost = <<>> /\ base_throughput = <<>>
    /\ noise = <<>> /\ throughput = <<>>
    /\ df = NoFrame /\ prev = NoFrame
    /\ csv = <<>> /\ png = NoImage /\ stats = NoStats
    /\ between = FALSE
    /\ steps = <<>>

\* lines 35-41: the targets, in order of preference
CDN_TARGETS ==
    <<[ip |-> "208.67.222.222", name |-> "OpenDNS Primary", cdn |-> "OpenDNS"],
      [ip |-> "208.67.220.220", name |-> "OpenDNS Secondary", cdn |-> "OpenDNS"],
      [ip |-> "9.9.9.9", name |-> "Quad9 DNS", cdn |-> "Quad9"],
      [ip |-> "1.0.0.1", name |-> "Cloudflare Secondary", cdn |-> "Cloudflare"],
      [ip |-> "8.8.4.4", name |-> "Google Secondary DNS", cdn |-> "Google"]>>

\* line 27: os.getenv gives None for an unset variable, and the value, which
\* may be empty, for a set one
KeyValues == {None, "", "key"}

\* the ids the service hands out for new measurements
MeasurementIds == {"1001", "1002"}

\* what atlas_request.create() (line 114) can come back with: the measurement
\* created and its id listed, the request refused (is_success false, as when
\* the concurrent-measurement limit is hit), or an exception
CreateOutcomes == {"created", "refused", "raised"}

\* how far save_measurement_metadata gets before an OSError, if any: both
\* files written, only the metadata file written, or nothing written
SaveOutcomes == {"both", "metadata_only", "nothing"}

LauncherInit ==
    /\ GeneratorIdle
    /\ VerifierIdle
    /\ primary_key \in KeyValues
    /\ lpc = "check_api_key"
    /\ target_i = 1
    /\ probes_ok = None
    /\ measurement_id = None
    /\ attempts = <<>>
    /\ measurements = <<>>
    /\ written = <<>>

\* Python truthiness of a key (str or None) and of a measurement id (written
\* here as its decimal text, or None)
Truthy(x) == x \notin {None, "", "0"}

\* lines 43-50 and 171-172: without a key main returns at once
CheckApiKey ==
    /\ lpc = "check_api_key"
    /\ lpc' = IF Truthy(primary_key) THEN "check_probes" ELSE "done"
    /\ UNCHANGED <<primary_key, target_i, probes_ok, measurement_id, attempts,
                   measurements, written, generator, verifier>>

\* lines 52-66 and 175-180: the probe query may fail; main only warns and
\* enters the loop over the targets
CheckProbes ==
    /\ lpc = "check_probes"
    /\ probes_ok' \in {"True", "False"}
    /\ target_i' = 1
    /\ lpc' = "create_measurement"
    /\ UNCHANGED <<primary_key, measurement_id, attempts, measurements, written,
                   generator, verifier>>

\* fault variant of CreateMeasurement: after a success the loop goes on to
\* the next target instead of saving and returning
CreateMeasurementNoReturn ==
    /\ lpc = "create_measurement"
    /\ \E outcome \in CreateOutcomes, id \in MeasurementIds :
          /\ attempts' = Append(attempts, [target |-> CDN_TARGETS[target_i],
                                            outcome |-> outcome])
          /\ IF outcome = "created"
             THEN /\ measurement_id' = id
                  /\ measurements' = Append(measurements,
                                        [id |-> id, target |-> CDN_TARGETS[target_i]])
             ELSE /\ measurement_id' = None
                  /\ measurements' = measurements
          /\ IF target_i < Len(CDN_TARGETS)
             THEN target_i' = target_i + 1 /\ lpc' = "create_measurement"
             ELSE target_i' = target_i /\ lpc' = "done"
    /\ UNCHANGED <<primary_key, probes_ok, written, generator, verifier>>

\* lines 180-207, one iteration: create_measurement (68-129) returns the id
\* the service listed, or None when the request was refused or anything in
\* its try block raised; with an id main goes to save and return (189-202),
\* without one to the next target, and past the last target to the
\* all-failed report (210-220)
CreateMeasurement ==
    /\ lpc = "create_measurement"
    /\ \E outcome \in CreateOutcomes, id \in MeasurementIds :
          /\ attempts' = Append(attempts, [target |-> CDN_TARGETS[target_i],
                                            outcome |-> outcome])
          /\ IF outcome = "created"
             THEN /\ measurement_id' = id
                  /\ measurements' = Append(measurements,
                                        [id |-> id, target |-> CDN_TARGETS[target_i]])
             ELSE /\ measurement_id' = None
                  /\ measurements' = measurements
          /\ IF Truthy(measurement_id')
             THEN target_i' = target_i /\ lpc' = "save_measurement_metadata"
             ELSE IF target_i < Len(CDN_TARGETS)
                  THEN target_i' = target_i + 1 /\ lpc' = "create_measurement"
                  ELSE target_i' = target_i /\ lpc' = "done"
    /\ UNCHANGED <<primary_key, probes_ok, written, generator, verifier>>

\* lines 131-162 and 191-202: the metadata file, then the latest-id file; an
\* exception on the way is caught and only warned about; main returns
SaveMeasurementMetadata ==
    /\ lpc = "save_measurement_metadata"
    /\ \E outcome \in SaveOutcomes :
          LET target   == CDN_TARGETS[target_i]
              metadata == [file |-> "ripe_measurement.json",
                           measurement_id |-> measurement_id, target |-> target]
              latest   == [file |-> "latest_measurement_id.txt",
                           measurement_id |-> measurement_id, target |-> target]
          IN  written' = CASE outcome = "both" -> written \o <<metadata, latest>>
                           [] outcome = "metadata_only" -> Append(written, metadata)
                           [] outcome = "nothing" -> written
    /\ lpc' = "done"
    /\ UNCHANGED <<primary_key, target_i, probes_ok, measurement_id, attempts,
                   measurements, generator, verifier>>

LauncherNext ==
    \/ CheckApiKey \/ CheckProbes \/ CreateMeasurement \/ SaveMeasurementMetadata

LauncherSpec == LauncherInit /\ [][LauncherNext]_vars

\* ------------------------------------------------ the installation verifier
\* verify_installation.py. What it inspects: the interpreter's version, the
\* importable packages, the directories below the working directory and the
\* .env file.
Versions == {<<2, 7>>, <<3, 7>>, SupportedVersion, <<3, 12>>, <<4, 0>>}

\* a package imports, is not installed (import_module raises ImportError), or
\* is installed and raises something else while it imports
PackageStates == {"installed", "missing", "broken"}

Sites ==
    {s \in [Elements(packages) \cup Elements(optional_packages) -> PackageStates] :
        Cardinality({p \in DOMAIN s : s[p] # "installed"}) <= MaxMissing}

DirSets ==
    {d \in SUBSET Elements(required_dirs) :
        Cardinality(Elements(required_dirs) \ d) <= MaxMissing}

\* .env is absent, holds the placeholder key, holds configured keys, or exists
\* and cannot be read
EnvFiles == {"missing", "template", "configured", "unreadable"}

VerifierInit ==
    /\ GeneratorIdle
    /\ LauncherIdle
    /\ version_info \in Versions
    /\ site_packages \in Sites
    /\ existing_dirs \in DirSets
    /\ env_file \in EnvFiles
    /\ vpc = "check_python_version"
    /\ checks = <<>>
    /\ report = None

\* line 16
VersionOk(v) == ~(v[1] < 3 \/ (v[1] = 3 /\ v[2] < 8))

\* fault variant of CheckPythonVersion: the checks are chained with 'and', so
\* a failed version check skips the others
CheckPythonVersionShortCircuit ==
    /\ vpc = "check_python_version"
    /\ checks' = Append(checks, VersionOk(version_info))
    /\ vpc' = IF VersionOk(version_info) THEN "check_packages" ELSE "report"
    /\ UNCHANGED <<version_info, site_packages, existing_dirs, env_file, report,
                   generator, launcher>>

\* lines 11-19 and 121: the first element of the list of checks
CheckPythonVersion ==
    /\ vpc = "check_python_version"
    /\ checks' = Append(checks, VersionOk(version_info))
    /\ vpc' = "check_packages"
    /\ UNCHANGED <<version_info, site_packages, existing_dirs, env_file, report,
                   generator, launcher>>

\* lines 43-52 and 63: all_ok, cleared by the ImportError of a required package
PackagesOk(s) == \A i \in 1..Len(packages) : s[packages[i]] # "missing"

\* lines 22-63 and 122: only ImportError is caught, in either loop, so any
\* other exception of an import leaves check_packages and main
CheckPackages ==
    /\ vpc = "check_packages"
    /\ IF \E p \in DOMAIN site_packages : site_packages[p] = "broken"
       THEN vpc' = "crashed" /\ checks' = checks
       ELSE /\ checks' = Append(checks, PackagesOk(site_packages))
            /\ vpc' = "check_directories"
    /\ UNCHANGED <<version_info, site_packages, existing_dirs, env_file, report,
                   generator, launcher>>

\* lines 66-87 and 123
CheckDirectories ==
    /\ vpc = "check_directories"
    /\ checks' = Append(checks, \A i \in 1..Len(required_dirs) :
                                    required_dirs[i] \in existing_dirs)
    /\ vpc' = "check_env_file"
    /\ UNCHANGED <<version_info, site_packages, existing_dirs, env_file, report,
                   generator, launcher>>

\* lines 90-112 and 124: an existing file passes, placeholder key or not; the
\* open and read of lines 99-100 are outside any try
CheckEnvFile ==
    /\ vpc = "check_env_file"
    /\ IF env_file = "unreadable"
       THEN vpc' = "crashed" /\ checks' = checks
       ELSE /\ checks' = Append(checks, env_file # "missing")
            /\ vpc' = "report"
    /\ UNCHANGED <<version_info, site_packages, existing_dirs, env_file, report,
                   generator, launcher>>

\* lines 127-136: all(checks)
Report ==
    /\ vpc = "report"
    /\ report' = IF \A k \in 1..Len(checks) : checks[k] THEN "ready" ELSE "failed"
    /\ vpc' = "done"
    /\ UNCHANGED <<version_info, site_packages, existing_dirs, env_file, checks,
                   generator, launcher>>

VerifierNext ==
    \/ CheckPythonVersion \/ CheckPackages \/ CheckDirectories \/ CheckEnvFile
    \/ Report

VerifierSpec == VerifierInit /\ [][VerifierNext]_vars

\* ============================================================== claims
\* The input contract of generate: positive sample count, loss probability
\* in [0, 1], ordered loss bounds.
ValidConfig(c) ==
    /\ c.N_SAMPLES > 0
    /\ 0 <= c.LOSS_PROBABILITY /\ c.LOSS_PROBABILITY <= ProbDen
    /\ c.LOSS_MIN <= c.LOSS_MAX

\* A call has returned its dataset and no later call is under way: the
\* locals are those of the run that built df.
Returned == calls >= 1 /\ pc \notin GenStmts /\ err # "ValueError"

Indices(q) == 1..Len(q)

\* C1 (reproducibility): any two completed calls of generate under the same
\* configuration and seed returned identical datasets, whatever the state of
\* the shared generator was at either call and whatever was drawn between.
C1_Reproducible == calls >= 2 => df = prev

C1_Witness ==
    /\ calls = 2 /\ between /\ pc = "idle"
    /\ Len(df.RTT) >= 2 /\ df = prev
    /\ rng # StepN(SeedState(cfg.RANDOM_SEED), Len(draws))

\* C2 (structural invariant): once computed, ttfb[i] = rtt[i] + server_delay[i]
\* for every sample, and in the returned dataset TTFB[i] = RTT[i] +
\* server_delay[i], where server_delay[i] is the i-th draw of the second
\* group of N draws after seeding.
C2_TtfbExact ==
    /\ \A i \in Indices(ttfb) : ttfb[i] = rtt[i] + server_delay[i]
    /\ Returned =>
         /\ Len(df.TTFB) = Len(server_delay)
         /\ \A i \in Indices(df.TTFB) :
              /\ df.TTFB[i] = df.RTT[i] + server_delay[i]
              /\ server_delay[i] =
                   LogNormal(DELAY_MEDIAN, DelayFactor,
                             StepN(SeedState(cfg.RANDOM_SEED), cfg.N_SAMPLES + i))

C2_Witness ==
    /\ Returned /\ Len(df.TTFB) >= 2
    /\ \E i, j \in Indices(df.TTFB) : server_delay[i] # server_delay[j]

\* C3 (loss bounds): under ordered loss bounds every sample of a returned
\* dataset has loss = 0 or LOSS_MIN <= loss <= LOSS_MAX, and a sample whose
\* index was not selected as lossy has loss exactly 0.
C3_LossBounds ==
    (Returned /\ cfg.LOSS_MIN <= cfg.LOSS_MAX) =>
        \A i \in Indices(df.Loss) :
            /\ \/ df.Loss[i] = 0
               \/ cfg.LOSS_MIN <= df.Loss[i] /\ df.Loss[i] <= cfg.LOSS_MAX
            /\ (\A m \in Indices(lossy_indices) : lossy_indices[m] # i - 1)
                   => df.Loss[i] = 0

C3_Witness ==
    /\ Returned /\ cfg.LOSS_MIN <= cfg.LOSS_MAX
    /\ \E i, j \in Indices(df.Loss) : df.Loss[i] = 0 /\ df.Loss[j] > cfg.LOSS_MIN

C5_Positivity ==
    df # NoFrame =>
        /\ \A i \in Indices(df.RTT) : df.RTT[i] > 0
        /\ \A i \in Indices(df.TTFB) : df.TTFB[i] > 0
        /\ \A i \in Indices(df.Throughput) :
               df.Throughput[i] > 0 /\ df.Throughput[i] >= THROUGHPUT_FLOOR

C5_Witness ==
    /\ Returned
    /\ \E i \in Indices(df.Throughput) :
          /\ (base_throughput[i] * noise[i]) \div NoiseScale < THROUGHPUT_FLOOR
          /\ df.Throughput[i] = THROUGHPUT_FLOOR
    /\ \E i \in Indices(df.Throughput) : df.Throughput[i] > THROUGHPUT_FLOOR

\* C6 (parameter validation), as claimed: a call under a configuration
\* outside the input contract fails before it draws, so it never returns a
\* dataset.
C6_InvalidRejected == ~ValidConfig(cfg) => df = NoFrame

\* C7 (draw order): within a run every draw is taken from the one shared
\* generator, which has advanced from the seeded state by exactly the draws
\* logged so far; the log is ordered RTT, server delay, lossy-index
\* selection, loss magnitude, noise; and a completed run has made N RTT
\* draws, N server-delay draws, one loss draw per lossy index and N noise
\* draws.
Rank(g) ==
    CASE g = "rtt" -> 1 [] g = "delay" -> 2 [] g = "choice" -> 3
      [] g = "loss" -> 4 [] g = "noise" -> 5

Count(g) == Cardinality({i \in Indices(draws) : draws[i] = g})

C7_DrawOrder ==
    /\ \A i, j \in Indices(draws) : i < j => Rank(draws[i]) <= Rank(draws[j])
    /\ (pc \in (GenStmts \ {"seed"}) \/ pc = "to_csv") =>
           rng = StepN(SeedState(cfg.RANDOM_SEED), Len(draws))
    /\ Returned =>
         /\ Count("rtt") = cfg.N_SAMPLES
         /\ Count("delay") = cfg.N_SAMPLES
         /\ Count("loss") = Len(lossy_indices)
         /\ Count("noise") = cfg.N_SAMPLES

C7_Witness ==
    /\ Returned
    /\ Count("rtt") = 3 /\ Count("delay") = 3 /\ Count("choice") = 2
    /\ Count("loss") = 1 /\ Count("noise") = 3

\* C8 (self-contained generation), as claimed: no statement of generate
\* changes the process-wide generator state.
C8_GlobalRngUntouched == [][(pc \in GenStmts) => (rng' = rng)]_vars

\* C9 (table shape): a returned dataset has the columns RTT, TTFB, Loss,
\* Throughput in this order and N_SAMPLES values in each; the exported table
\* is the header row of these four names followed by N_SAMPLES rows of four
\* cells, the decimal text of the row's RTT, TTFB, Loss and Throughput.
C9_TableShape ==
    /\ df # NoFrame =>
         /\ df.columns = <<"RTT", "TTFB", "Loss", "Throughput">>
         /\ Len(df.RTT) = cfg.N_SAMPLES /\ Len(df.TTFB) = cfg.N_SAMPLES
         /\ Len(df.Loss) = cfg.N_SAMPLES /\ Len(df.Throughput) = cfg.N_SAMPLES
    /\ csv # <<>> =>
         /\ Len(csv) = cfg.N_SAMPLES + 1
         /\ csv[1] = <<"RTT", "TTFB", "Loss", "Throughput">>
         /\ \A i \in 1..cfg.N_SAMPLES :
              csv[i + 1] = <<ToString(df.RTT[i]), ToString(df.TTFB[i]),
                             ToString(df.Loss[i]), ToString(df.Throughput[i])>>

C9_Witness ==
    /\ pc = "describe" /\ cfg.N_SAMPLES = 3
    /\ Len(csv) = 4 /\ Len(csv[4]) = 4
    /\ \E i \in Indices(server_delay) : server_delay[i] > 0

\* C10 (reporter is read-only): the summary statistics, the diagnostics and
\* the visualization leave the dataset as generate returned it.
C10_ReporterReadOnly ==
    [][(pc \in {"describe", "diagnostics", "visualize"}) => (df' = df)]_vars

C10_Witness ==
    /\ caller = "main" /\ pc = "idle" /\ calls >= 1
    /\ png.written /\ Len(png.points) >= 2
    /\ stats.count = Len(df.RTT) /\ stats.lossy >= 1
    /\ df = FrameOf(rtt, ttfb, loss, throughput)

\* C11 (I/O failure in the batch run): a run of main executes its statements
\* at most once each, in the order generate, to_csv, describe, diagnostics,
\* visualize, so the generator runs once and before any persistence or
\* reporting; a failed write of the table or of the image leaves main as an
\* uncaught IOError at that statement, and after it no statement runs: the
\* failed write is not retried and no later step is executed.
MainOrder == <<"generate", "to_csv", "describe", "diagnostics", "visualize">>

IsPrefix(p, q) == Len(p) <= Len(q) /\ \A i \in Indices(p) : p[i] = q[i]

C11_RunShape ==
    /\ IsPrefix(steps, MainOrder)
    /\ (caller = "main" /\ Len(steps) >= 2) =>
         /\ calls >= 1 /\ pc \notin GenStmts
         /\ df = FrameOf(rtt, ttfb, loss, throughput)
    /\ err = "IOError" =>
         /\ pc = "crashed" /\ caller = "main"
         /\ steps[Len(steps)] \in {"to_csv", "visualize"}
         /\ (steps[Len(steps)] = "to_csv" /\ calls = 1) =>
                csv = <<>> /\ stats = NoStats /\ png = NoImage
         /\ (steps[Len(steps)] = "visualize" /\ calls = 1) => png = NoImage

C11_IoFailure == []C11_RunShape /\ [][pc # "crashed"]_vars

C11_Witness ==
    /\ err = "IOError" /\ pc = "crashed" /\ calls = 1
    /\ steps = <<"generate", "to_csv">>
    /\ Len(df.RTT) >= 2 /\ csv = <<>> /\ stats = NoStats /\ png = NoImage

\* ---------------------------------------------------------------- C13
\* C13: in every returned dataset each throughput is the larger of the floor
\* and the noisy value (THROUGHPUT_CONSTANT / cost) * noise, where cost is
\* RTT + TTFB + Loss * LOSS_IMPACT_WEIGHT of the same row and the noise
\* factor lies within the noise bounds; a value that was not floored lies
\* between the low and the high noise bound times the noise-free value of its
\* row (each product rounded as the code's product is).
RowCost(d, i) ==
    d.RTT[i] + d.TTFB[i] + (d.Loss[i] * LOSS_IMPACT_WEIGHT) \div LossScale

RowBase(d, i) == (THROUGHPUT_CONSTANT * TpScale) \div RowCost(d, i)

C13_ThroughputDerivation ==
    Returned =>
        /\ Len(noise) = Len(df.Throughput)
        /\ \A i \in Indices(df.Throughput) :
              LET base == RowBase(df, i)
                  raw  == (base * noise[i]) \div NoiseScale
              IN  /\ NOISE_LOW <= noise[i] /\ noise[i] <= NOISE_HIGH
                  /\ df.Throughput[i] = Max(THROUGHPUT_FLOOR, raw)
                  /\ raw >= THROUGHPUT_FLOOR =>
                        /\ (NOISE_LOW * base) \div NoiseScale <= df.Throughput[i]
                        /\ df.Throughput[i] <= (NOISE_HIGH * base) \div NoiseScale

\* a returned dataset with a lossy row whose throughput was scaled down by its
\* noise factor and not floored, next to a row that was scaled up
C13_Witness ==
    /\ Returned
    /\ \E i, j \in Indices(df.Throughput) :
          /\ df.Loss[i] > 0 /\ noise[i] < NoiseScale
          /\ df.Throughput[i] > THROUGHPUT_FLOOR
          /\ df.Throughput[i] < RowBase(df, i)
          /\ noise[j] > NoiseScale
          /\ df.Throughput[j] > RowBase(df, j)

\* ---------------------------------------------------------------- C14
\* two rows of a returned dataset with the same noise factor, the first of
\* strictly higher cost
SameNoisePairs ==
    {p \in Indices(df.Throughput) \X Indices(df.Throughput) :
        /\ noise[p[1]] = noise[p[2]]
        /\ RowCost(df, p[1]) > RowCost(df, p[2])}

\* the noisy value of row i lies above the floor, so line 108 left it alone
Unclamped(i) == NoisyOf(base_throughput, noise)[i] > THROUGHPUT_FLOOR

\* C14 as stated: of two samples with the same noise factor the one with the
\* strictly higher cost never has the higher throughput, and has strictly
\* lower throughput when neither value was raised to the floor.
C14_StrictInverse ==
    Returned =>
        \A p \in SameNoisePairs :
            /\ df.Throughput[p[1]] <= df.Throughput[p[2]]
            /\ (Unclamped(p[1]) /\ Unclamped(p[2])) =>
                   df.Throughput[p[1]] < df.Throughput[p[2]]

\* C14, amended: of two samples with the same noise factor the one with the
\* strictly higher cost never has the higher throughput (the two may be
\* equal, floored or not, since the quotient and the product are rounded);
\* with server delay, loss and noise equal, a larger rtt never yields a
\* larger throughput.
C14_Inverse ==
    Returned =>
        /\ \A p \in SameNoisePairs :
              df.Throughput[p[1]] <= df.Throughput[p[2]]
        /\ \A i, j \in Indices(df.Throughput) :
              (/\ server_delay[i] = server_delay[j]
               /\ df.Loss[i] = df.Loss[j]
               /\ noise[i] = noise[j]
               /\ df.RTT[i] > df.RTT[j]) =>
                  df.Throughput[i] <= df.Throughput[j]

\* a returned dataset whose two rows have the same noise factor, server delay
\* and loss, neither floored, where the row of larger rtt and cost has the
\* same throughput
C14_Witness ==
    /\ Returned
    /\ \E p \in SameNoisePairs :
          /\ server_delay[p[1]] = server_delay[p[2]]
          /\ df.Loss[p[1]] = df.Loss[p[2]]
          /\ df.RTT[p[1]] > df.RTT[p[2]]
          /\ Unclamped(p[1]) /\ Unclamped(p[2])
          /\ df.Throughput[p[1]] = df.Throughput[p[2]]

\* ---------------------------------------------------------------- C15
\* C15 (probe-launcher fallback): with a key, main attempts the CDN targets
\* strictly in list order, each at most once, and attempts a target only
\* after every earlier attempt failed; it stops at the first success, so the
\* service reports at most one measurement created per run; whatever it
\* saves carries that measurement's id and target, and it saves nothing when
\* every target failed; a finished run has either launched a measurement or
\* tried every target; without a key nothing is attempted at all.
C15_Fallback ==
    /\ Len(attempts) <= Len(CDN_TARGETS)
    /\ \A k \in Indices(attempts) :
          /\ attempts[k].target = CDN_TARGETS[k]
          /\ k < Len(attempts) => attempts[k].outcome # "created"
    /\ Len(measurements) <= 1
    /\ measurements # <<>> =>
          /\ attempts[Len(attempts)].outcome = "created"
          /\ measurements[1].target = attempts[Len(attempts)].target
          /\ lpc \in {"save_measurement_metadata", "done"}
    /\ \A w \in Indices(written) :
          /\ measurements # <<>>
          /\ written[w].measurement_id = measurements[1].id
          /\ written[w].target = measurements[1].target
    /\ (\A k \in Indices(attempts) : attempts[k].outcome # "created") =>
          written = <<>>
    /\ (lpc = "done" /\ Truthy(primary_key)) =>
          \/ measurements # <<>>
          \/ Len(attempts) = Len(CDN_TARGETS)
    /\ ~Truthy(primary_key) =>
          /\ attempts = <<>> /\ measurements = <<>> /\ written = <<>>
          /\ probes_ok = None

\* a finished run in which the first two targets failed, one refused and one
\* with an exception, the third succeeded and both files were written for it
C15_Witness ==
    /\ lpc = "done"
    /\ Len(attempts) = 3
    /\ attempts[1].outcome = "refused" /\ attempts[2].outcome = "raised"
    /\ attempts[3].outcome = "created"
    /\ Len(measurements) = 1
    /\ measurements[1].target = CDN_TARGETS[3]
    /\ Len(written) = 2
    /\ written[2].file = "latest_measurement_id.txt"
    /\ written[2].measurement_id = measurements[1].id

\* ---------------------------------------------------------------- C16
\* the checks main calls, in the order of its list
CheckOrder == <<"check_python_version", "check_packages", "check_directories",
                "check_env_file">>

\* C16 (installation verifier): main runs the four checks in the order Python
\* version, packages, directories, env file, and a check that returned false
\* stops nothing: each check is reached with the results of all the checks
\* before it, whatever they are, and the report is made from four results;
\* main reports the environment as ready if and only if all four returned
\* true; the package check returns false exactly when a required package is
\* missing, so a missing optional package never fails it.
C16_AllChecksRun ==
    /\ \A k \in Indices(CheckOrder) : vpc = CheckOrder[k] => Len(checks) = k - 1
    /\ vpc \in {"report", "done"} => Len(checks) = Len(CheckOrder)
    /\ vpc # "done" => report = None
    /\ vpc = "done" =>
          /\ report \in {"ready", "failed"}
          /\ report = "ready" <=> \A k \in Indices(CheckOrder) : checks[k]
    /\ Len(checks) >= 2 =>
          (checks[2] <=> \A i \in Indices(packages) :
                             site_packages[packages[i]] # "missing")

\* a finished run on an interpreter that is too old, with an optional package
\* missing: the version check failed, the package check passed, all four
\* checks ran and the environment is reported as not ready
C16_Witness ==
    /\ vpc = "done"
    /\ \E i \in Indices(optional_packages) :
          site_packages[optional_packages[i]] = "missing"
    /\ Len(checks) = Len(CheckOrder)
    /\ ~checks[1] /\ checks[2] /\ checks[3] /\ checks[4]
    /\ report = "failed"


====
